---- MODULE Spec2Model ----
(***************************************************************************)
(* RenderCore (lib/RenderCore_OptixRTX_B/rendercore.cpp): the host side of *)
(* the wavefront path tracer.  The model follows RenderCore::SetTarget and *)
(* RenderCore::Render statement by statement.  The device kernels          *)
(* (InitCountersForExtend, InitCountersSubsequent, shade, the OptiX        *)
(* programs) are only declared in rendercore.cpp; their effect on the      *)
(* device counters and on the accumulator is modelled from spec.md.  The   *)
(* scene setters (SetGeometry, SetInstance, SetTextures, SetMaterials,     *)
(* SetLights, SetSkyData) and Setting are modelled the same way.           *)
(***************************************************************************)
EXTENDS Integers, Sequences, FiniteSets, TLC

VARIABLES
  scrwidth, scrheight, scrspp,   \* RenderCore::scrwidth, scrheight, scrspp
  maxPixels, currentSPP,         \* RenderCore::maxPixels, currentSPP
  samplesTaken,                  \* RenderCore::samplesTaken
  camRNGseed,                    \* RenderCore::camRNGseed, 32 bits, bit 0 first
  accumulator,                   \* InteropBuffer: [cap, gen, sum]
  hitBuffer, pathStateBuffer, connectionBuffer,  \* InteropBuffer: [cap, gen]
  counterBuffer,                 \* CoreBuffer<Counters>: the device-side record
  pc,                            \* position of the host thread inside Render
  converge,                      \* Render's converge argument
  pathLength, pathCount,         \* Render's loop variable and local
  counters,                      \* Render's local Counters snapshot
  log,                           \* operations issued by the running Render call
  frames,                        \* Render calls completed since SetTarget / Restart
  seedFrames,                    \* Render calls started since the seed was last set
  dirtyBefore,                   \* the running Render call started from used state
  targetSeq,                     \* SetTarget calls observed so far (TargetSpec)
  hitWriter,                     \* per hit record: the bounce of the running
                                 \* frame whose intersection dispatch wrote it
  meshes,                        \* RenderCore::meshes (vector<CoreMesh*>)
  instances,                     \* RenderCore::instances (vector<CoreInstance*>)
  topLevelDirty,                 \* topLevelGroup->getAcceleration() is dirty
  instancesDirty,                \* RenderCore::instancesDirty
  instDescBuffer,                \* CoreBuffer<CoreInstanceDesc>: [cap, gen]
  instDescPtr,                   \* the pointer given to SetInstanceDescriptors
  instDescArray,                 \* Render's local vector<CoreInstanceDesc>
  settings,                      \* vars.geometryEpsilon, vars.clampValue and
                                 \* the device-side copies of both
  texDescs, textureCount,        \* RenderCore::texDescs, textureCount
  texelBuffers,                  \* texel32Buffer, texel128Buffer, normal32Buffer
  materialBuffer,                \* RenderCore::materialBuffer: [gen, mats]
  lightBuffers,                  \* the four light buffers and the light counts
  skyPixelBuffer, skywidth, skyheight,  \* RenderCore::skyPixelBuffer, ...
  maxMeshIdx, maxInstanceIdx,    \* largest index passed to SetGeometry, SetInstance
  repeatedCall,                  \* the latest SetInstance call repeated the
                                 \* arguments of the previous call for its index
  lastSetting,                   \* name and value of the latest Setting call
  topLevelChildren,              \* the children of topLevelGroup: per child the
                                 \* instance whose transform node it is
  hostSynced,                    \* the host has called UpdateToplevel for the
                                 \* frame it is about to render
  shadeArgs,                     \* seed and pass handed to the shading dispatches
                                 \* of the running Render call
  materialsCurrent               \* SetMaterials ran after the latest SetTextures

vars == << scrwidth, scrheight, scrspp, maxPixels, currentSPP, samplesTaken,
           camRNGseed, accumulator, hitBuffer, pathStateBuffer, connectionBuffer,
           counterBuffer, pc, converge, pathLength, pathCount, counters, log,
           frames, seedFrames, dirtyBefore, targetSeq, hitWriter, meshes,
           instances, topLevelDirty, instancesDirty, instDescBuffer, instDescPtr,
           instDescArray, settings, texDescs, textureCount, texelBuffers,
           materialBuffer, lightBuffers, skyPixelBuffer, skywidth, skyheight,
           maxMeshIdx, maxInstanceIdx, repeatedCall, lastSetting,
           topLevelChildren, hostSynced, shadeArgs, materialsCurrent >>

targetVars == << scrwidth, scrheight, scrspp, maxPixels, currentSPP >>
bufferVars == << hitBuffer, pathStateBuffer, connectionBuffer >>
frameVars  == << pc, converge, pathLength, pathCount, counters, log >>
\* the scene mirror and the render parameters: nothing Render writes
materialVars == << texDescs, textureCount, texelBuffers, materialBuffer,
                  materialsCurrent >>
skyVars      == << skyPixelBuffer, skywidth, skyheight >>
callVars     == << maxMeshIdx, maxInstanceIdx, repeatedCall, lastSetting >>
sceneVars    == << meshes, instances, instancesDirty, settings, materialVars,
                  lightBuffers, skyVars, callVars >>
\* the instance descriptors Render uploads
descVars     == << instDescBuffer, instDescPtr, instDescArray >>
\* what only SetTarget and Render write
renderVars   == << targetVars, bufferVars, samplesTaken, camRNGseed, accumulator,
                  counterBuffer, frameVars, frames, seedFrames, dirtyBefore,
                  targetSeq, hitWriter, descVars, shadeArgs >>
\* the top-level structure and the host's place in its frame protocol
hostVars     == << topLevelChildren, hostSynced >>

(***************************************************************************)
(* Bounds of the model.                                                    *)
(***************************************************************************)
MeshIdxs     == {0, 1}       \* mesh indices the host passes
Geometries   == {1, 2}       \* triangle data sets the host passes
InstanceIdxs == {0, 1}       \* instance indices the host passes
Transforms   == {0, 1, 2}    \* instance matrices: the rotations by 0, 120, 240 degrees
Widths  == {2, 4}
Heights == {4}
SPPs    == {1, 2}
MaxFrames      == 2   \* Render(Continue) calls allowed on one seed lineage
MaxTargetCalls == 4   \* length of an observed SetTarget sequence

(***************************************************************************)
(* Program constants.                                                      *)
(***************************************************************************)
MaxBounces    == 3           \* for (pathLength = 1; pathLength <= 3; ...)
MAXPATHLENGTH == 3           \* core_settings.h
SeedConst     == 305419896   \* 0x12345678

Convergence == {"Continue", "Restart"}

(***************************************************************************)
(* 32-bit unsigned values as bit vectors (bit 0 is the least significant). *)
(***************************************************************************)
Bits32 == 0..31

RECURSIVE Pow2(_)
Pow2(n) == IF n = 0 THEN 1 ELSE 2 * Pow2(n - 1)

ToBits(n) == [i \in Bits32 |-> IF i < 31 THEN (n \div Pow2(i)) % 2 ELSE 0]

XorBits(a, b) == [i \in Bits32 |-> IF a[i] = b[i] THEN 0 ELSE 1]
Shl(a, k)     == [i \in Bits32 |-> IF i >= k THEN a[i - k] ELSE 0]
Shr(a, k)     == [i \in Bits32 |-> IF i + k <= 31 THEN a[i + k] ELSE 0]

\* RandomUInt( uint& seed ): xorshift32; the seed is advanced in place.
RandomUInt(seed) ==
  LET s1 == XorBits(seed, Shl(seed, 13))
      s2 == XorBits(s1, Shr(s1, 17))
  IN  XorBits(s2, Shl(s2, 5))

FixedSeed == ToBits(SeedConst)

\* The constructor value of camRNGseed is set outside rendercore.cpp.
SeedInits == {FixedSeed}

(***************************************************************************)
(* Buffers.  gen = 0 is the null pointer; "delete b; b = new ..." yields a *)
(* buffer whose gen differs from the one it replaces, so a changed gen     *)
(* means the buffer was replaced.                                          *)
(***************************************************************************)
NullBuffer == [cap |-> 0, gen |-> 0]
NewGen(old) == IF old.gen = 1 THEN 2 ELSE 1
NewBuffer(old, size) == [cap |-> size, gen |-> NewGen(old)]

Counters == [activePaths : Nat, extensionRays : Nat, shadowRays : Nat]
ZeroCounters == [activePaths |-> 0, extensionRays |-> 0, shadowRays |-> 0]
\* "Counters counters;" is declared without an initialiser and is assigned
\* before its first read; -1 marks the indeterminate snapshot.
NoCounters == [activePaths |-> -1, extensionRays |-> -1, shadowRays |-> -1]

Event(op, b, n, ext, sh) == [op |-> op, b |-> b, n |-> n, ext |-> ext, sh |-> sh]

\* enum TexelStorage
TexelStorage == {"ARGB32", "ARGB128", "NRM32"}

\* The render parameters: vars.geometryEpsilon and vars.clampValue on the
\* host, the values last handed to SetGeometryEpsilon, to
\* context["geometryEpsilon"] and to SetClampValue on the device.  Init()
\* hands 10.0f to SetClampValue; the host defaults are set outside
\* rendercore.cpp.
ClampInit == 10
DefaultSettings ==
  [geometryEpsilon |-> 0, clampValue |-> ClampInit,
   devGeometryEpsilon |-> 0, ctxGeometryEpsilon |-> 0, devClampValue |-> ClampInit]

(***************************************************************************)
(* State after construction and Init(): no target, no per-frame buffers,   *)
(* the counter buffer allocated.                                           *)
(***************************************************************************)
InitExceptSettings ==
  /\ scrwidth = 0 /\ scrheight = 0 /\ scrspp = 0
  /\ maxPixels = 0 /\ currentSPP = 0
  /\ samplesTaken = 0
  /\ camRNGseed \in SeedInits
  /\ accumulator = [cap |-> 0, gen |-> 0, sum |-> 0]
  /\ hitBuffer = NullBuffer
  /\ pathStateBuffer = NullBuffer
  /\ connectionBuffer = NullBuffer
  /\ counterBuffer = ZeroCounters
  /\ pc = "idle"
  /\ converge = "Continue"
  /\ pathLength = 0 /\ pathCount = 0
  /\ counters = NoCounters
  /\ log = << >>
  /\ frames = 0
  /\ seedFrames = 0
  /\ dirtyBefore = FALSE
  /\ targetSeq = << >>
  /\ hitWriter = << >>
  /\ meshes = << >>
  /\ instances = << >>
  /\ topLevelDirty = FALSE
  /\ instancesDirty = TRUE
  /\ instDescBuffer = NullBuffer
  /\ instDescPtr = 0
  /\ instDescArray = << >>
  /\ texDescs = << >> /\ textureCount = 0
  /\ texelBuffers = [st \in TexelStorage |-> NullBuffer]
  /\ materialBuffer = [gen |-> 0, mats |-> << >>]
  /\ lightBuffers = [gen |-> 0, area |-> 0, point |-> 0, spot |-> 0, directional |-> 0]
  /\ skyPixelBuffer = NullBuffer /\ skywidth = 0 /\ skyheight = 0
  /\ maxMeshIdx = -1 /\ maxInstanceIdx = -1
  /\ repeatedCall = FALSE
  /\ lastSetting = << >>
  /\ topLevelChildren = << >>
  /\ hostSynced = FALSE
  /\ shadeArgs = << >>
  /\ materialsCurrent = FALSE

Init ==
  /\ InitExceptSettings
  /\ settings = DefaultSettings

(***************************************************************************)
(* RenderCore::SetTarget                                                   *)
(***************************************************************************)
NeedsReallocateNeq(w, h, spp) == (w * h # maxPixels) \/ (spp # currentSPP)
NeedsReallocateNoSpp(w, h, spp) == w * h > maxPixels
NeedsReallocateNoGrow(w, h, spp) == spp # currentSPP

\* if (scrwidth * scrheight > maxPixels || spp != currentSPP)
NeedsReallocate(w, h, spp) == (w * h > maxPixels) \/ (spp # currentSPP)

\* The reservation without the slack of line 183.
ReservedPixelsExact(w, h) == w * h

\* maxPixels = scrwidth * scrheight; maxPixels += maxPixels >> 4;
ReservedPixels(w, h) == (w * h) + ((w * h) \div 16)

ConnectionSize(mp, spp)  == mp * spp * 3 * MAXPATHLENGTH
AccumulatorSize(mp)      == mp * 2
HitSize(mp, spp)         == mp * spp
PathStateSize(mp, spp)   == mp * spp * 3

\* accumulator->Clear( ON_DEVICE )
Clear(buf) == [buf EXCEPT !.sum = 0]

\* SetTarget without the clear of line 203.
ClearOnSetTargetSkipped(buf) == buf

\* Lines 202-203: the clear SetTarget ends with.
ClearOnSetTarget(buf) == Clear(buf)

\* Line 448: the clear of Render(Restart).
ClearSkipped(buf) == buf
ClearOnRestart(buf) == Clear(buf)

\* A freshly allocated device buffer holds indeterminate content.
Garbage == {0, 1}

SetTargetBody(w, h, spp) ==
  LET reallocate == NeedsReallocate(w, h, spp)
      mp         == IF reallocate THEN ReservedPixels(w, h) ELSE maxPixels
  IN  /\ pc = "idle"
      /\ scrwidth' = w /\ scrheight' = h /\ scrspp' = spp
      /\ maxPixels' = mp
      /\ currentSPP' = IF reallocate THEN spp ELSE currentSPP
      /\ connectionBuffer' = IF reallocate
                               THEN NewBuffer(connectionBuffer, ConnectionSize(mp, spp))
                               ELSE connectionBuffer
      /\ hitBuffer' = IF reallocate THEN NewBuffer(hitBuffer, HitSize(mp, spp))
                                    ELSE hitBuffer
      /\ pathStateBuffer' = IF reallocate
                              THEN NewBuffer(pathStateBuffer, PathStateSize(mp, spp))
                              ELSE pathStateBuffer
      /\ \E garbage \in Garbage :
           accumulator' = ClearOnSetTarget(
                            IF reallocate
                              THEN [cap |-> AccumulatorSize(mp),
                                    gen |-> NewGen(accumulator), sum |-> garbage]
                              ELSE accumulator)
      /\ samplesTaken' = 0
      /\ frames' = 0
      /\ UNCHANGED << camRNGseed, counterBuffer, frameVars, seedFrames, dirtyBefore,
                      sceneVars, topLevelDirty, descVars, hostVars, shadeArgs >>
      /\ hitWriter' = IF reallocate THEN [k \in 1..HitSize(mp, spp) |-> 0]
                                    ELSE hitWriter

SetTarget(w, h, spp) ==
  /\ SetTargetBody(w, h, spp)
  /\ UNCHANGED targetSeq

\* The same call, with the call and its outcome appended to targetSeq.
SetTargetTracked(w, h, spp) ==
  /\ Len(targetSeq) < MaxTargetCalls
  /\ SetTargetBody(w, h, spp)
  /\ targetSeq' = Append(targetSeq,
                    [w |-> w, h |-> h, spp |-> spp,
                     reallocated |-> (accumulator'.gen # accumulator.gen),
                     accumulator |-> accumulator'.cap,
                     hit |-> hitBuffer'.cap,
                     pathState |-> pathStateBuffer'.cap,
                     connection |-> connectionBuffer'.cap])

(***************************************************************************)
(* Device side (declared at lines 23-29, modelled from spec.md 4.4).       *)
(***************************************************************************)
\* InitCountersForExtend( pathCount ): live/extension/shadow counters for a
\* fresh population.
InitCountersForExtend(n) ==
  [activePaths |-> n, extensionRays |-> 0, shadowRays |-> 0]

\* InitCountersSubsequent(): the survivors become the live paths; the
\* shadow-ray counter keeps what earlier bounces accumulated.
InitCountersSubsequent(dev) ==
  [dev EXCEPT !.activePaths = dev.extensionRays, !.extensionRays = 0]

\* What one shade dispatch over p paths may do: none, half or all of the paths
\* survive; none or all of them emit a shadow candidate; a dispatch that
\* shades any path deposits one unit of radiance.
ShadeOutcomes(p) ==
  [ext : {0, p \div 2, p}, shadow : {0, p}, deposit : IF p = 0 THEN {0} ELSE {1}]

ShadeKernel(dev, o) ==
  [dev EXCEPT !.extensionRays = @ + o.ext, !.shadowRays = @ + o.shadow]

\* What the shadow-ray dispatch over n connections may deposit: nothing when
\* every connection is occluded, one unit otherwise.
ConnectOutcomes(n) == IF n = 0 THEN {0} ELSE {0, 1}

Deposit(buf, d) == [buf EXCEPT !.sum = @ + d]

\* An intersection dispatch over n paths writes the hit records of path
\* indices 0..n-1 (entries 1..n of hitWriter); b is the bounce.
WriteHits(hits, n, b) == [k \in DOMAIN hits |-> IF k <= n THEN b ELSE hits[k]]

\* counterBuffer->CopyToHost(); ... counterBuffer->HostPtr()[0]: the value the
\* host reads is the device record at the time of the copy.
CopyToHost(buf) == buf

(***************************************************************************)
(* RenderCore::SetGeometry                                                 *)
(***************************************************************************)
\* The test of line 217 always succeeding.
AppendsMeshAlways(meshIdx) == TRUE

\* if (meshIdx >= meshes.size()) meshes.push_back( new CoreMesh() );
AppendsMesh(meshIdx) == meshIdx >= Len(meshes)

\* new CoreMesh(): a mesh without triangle data.
NewCoreMesh == [triangles |-> 0]

\* CoreMesh::SetGeometry: the mesh holds the triangle data it was handed.
CoreMeshSetGeometry(mesh, g) == [mesh EXCEPT !.triangles = g]

\* Lines 211-219.  Meshes are introduced in index order: an index beyond the
\* mesh count would index past the end of the vector at line 218.
SetGeometry(meshIdx, g) ==
  /\ pc = "idle"
  /\ meshIdx <= Len(meshes)
  /\ LET grown == IF AppendsMesh(meshIdx) THEN Append(meshes, NewCoreMesh)
                                          ELSE meshes
     IN  meshes' = [grown EXCEPT ![meshIdx + 1] = CoreMeshSetGeometry(@, g)]
  /\ maxMeshIdx' = IF meshIdx > maxMeshIdx THEN meshIdx ELSE maxMeshIdx
  /\ repeatedCall' = FALSE
  /\ UNCHANGED << renderVars, hostVars, instances, topLevelDirty, instancesDirty, settings,
                  materialVars, lightBuffers, skyVars, maxInstanceIdx, lastSetting >>

(***************************************************************************)
(* RenderCore::SetInstance                                                 *)
(***************************************************************************)
\* mat4::Inverted: the inverse of the rotation by m thirds of a turn.
Inverted(m) == (3 - m) % 3

\* if (instanceIdx >= instances.size())
AppendsInstance(instanceIdx) == instanceIdx >= Len(instances)

\* Lines 232-243: the new instance's geometry instance is created from
\* meshes[meshIdx]->geometryTriangles and put, through a geometry group, under
\* a new transform node.  geometryInstance is the index of that mesh; the
\* matrices and the mesh reference are not set yet.
NewCoreInstance(meshIdx) ==
  [geometryInstance |-> meshIdx, mesh |-> -1, transform |-> 0, inverse |-> 0]

\* The matrix accumulated onto the stored one instead of replacing it.
SetMatrixComposed(inst, matrix, inverted) ==
  [inst EXCEPT !.transform = (@ + matrix) % 3,
               !.inverse = Inverted((inst.transform + matrix) % 3)]

\* Line 248: transform->setMatrix( false, matrix, inverted )
SetMatrix(inst, matrix, inverted) ==
  [inst EXCEPT !.transform = matrix, !.inverse = inverted]

\* Lines 225-252.  Instances are introduced in index order and refer to a
\* mesh that exists.
SetInstance(instanceIdx, meshIdx, matrix) ==
  /\ pc = "idle"
  /\ instanceIdx <= Len(instances)
  /\ meshIdx < Len(meshes)
  /\ LET grown == IF AppendsInstance(instanceIdx)
                    THEN Append(instances, NewCoreInstance(meshIdx))
                    ELSE instances
         inverted == Inverted(matrix)
     IN  instances' = [grown EXCEPT ![instanceIdx + 1] =
                         [SetMatrix(@, matrix, inverted) EXCEPT !.mesh = meshIdx]]
  /\ topLevelDirty' = TRUE
  /\ maxInstanceIdx' = IF instanceIdx > maxInstanceIdx THEN instanceIdx
                                                       ELSE maxInstanceIdx
  /\ repeatedCall' = /\ instanceIdx < Len(instances)
                     /\ instances[instanceIdx + 1].mesh = meshIdx
                     /\ instances[instanceIdx + 1].transform = matrix
  /\ UNCHANGED << renderVars, hostVars, meshes, instancesDirty, settings, materialVars,
                  lightBuffers, skyVars, maxMeshIdx, lastSetting >>

(***************************************************************************)
(* RenderCore::UpdateToplevel                                              *)
(* topLevelChildren is the child list of topLevelGroup; a child is the     *)
(* transform node of an instance, named by the position of that instance   *)
(* (the node is created when the instance is appended and never replaced). *)
(***************************************************************************)
\* instances[i]->transform, i counted from 0; 0 is an unset child.
TransformNode(i) == i + 1

\* if (topLevelGroup->getChildCount() != instances.size())
ChildCountDiffersNever(children, n) == FALSE
ChildCountDiffers(children, n) == Len(children) # n

\* topLevelGroup->setChildCount( n )
SetChildCount(children, n) ==
  [i \in 1..n |-> IF i <= Len(children) THEN children[i] ELSE 0]

\* for (i = 0; i < s; i++) topLevelGroup->setChild( i, instances[i]->transform ):
\* a child index the group does not have is rejected by the group.
SetChildren(children, n) ==
  [i \in DOMAIN children |-> IF i <= n THEN TransformNode(i - 1) ELSE children[i]]

UpdateToplevel ==
  /\ pc = "idle"
  /\ topLevelChildren' =
       SetChildren(IF ChildCountDiffers(topLevelChildren, Len(instances))
                     THEN SetChildCount(topLevelChildren, Len(instances))
                     ELSE topLevelChildren,
                   Len(instances))
  /\ hostSynced' = TRUE
  /\ UNCHANGED << renderVars, sceneVars, topLevelDirty >>

(***************************************************************************)
(* RenderCore::SetTextures and RenderCore::SyncStorageType                 *)
(* A texture descriptor is [storage, pixelCount, firstPixel]; tex is the   *)
(* array the host passes.                                                  *)
(***************************************************************************)
RECURSIVE TexelTotal(_, _, _)
\* Lines 301 and 336: the texels of storage type st in the first n descriptors.
TexelTotal(tex, st, n) ==
  IF n = 0 THEN 0
  ELSE TexelTotal(tex, st, n - 1)
         + (IF tex[n].storage = st THEN tex[n].pixelCount ELSE 0)

\* texelTotal = max( 16, texelTotal )
MinTexels == 16
TexelBufferSize(tex, st) ==
  IF TexelTotal(tex, st, Len(tex)) > MinTexels THEN TexelTotal(tex, st, Len(tex))
                                                ELSE MinTexels

\* The running offset of line 335 counting the texels of every storage type.
FirstPixelAnyStorage(tex, i) ==
  TexelTotal(tex, "ARGB32", i - 1) + TexelTotal(tex, "ARGB128", i - 1)
    + TexelTotal(tex, "NRM32", i - 1)

\* Line 335: texDescs[i].firstPixel = texelTotal, the texels of the same
\* storage type in the descriptors before i.
FirstPixel(tex, i) == TexelTotal(tex, tex[i].storage, i - 1)

\* Lines 271-290 with the three SyncStorageType calls (lines 298-342).  With
\* no textures the call returns at line 276 and keeps the texel buffers.
SetTextures(tex) ==
  /\ pc = "idle"
  /\ textureCount' = Len(tex)
  /\ IF Len(tex) = 0
       THEN /\ texDescs' = << >>
            /\ UNCHANGED texelBuffers
       ELSE /\ texDescs' = [i \in DOMAIN tex |->
                              [tex[i] EXCEPT !.firstPixel = FirstPixel(tex, i)]]
            /\ texelBuffers' = [st \in TexelStorage |->
                                  NewBuffer(texelBuffers[st], TexelBufferSize(tex, st))]
  /\ UNCHANGED << renderVars, hostVars, meshes, instances, topLevelDirty, instancesDirty,
                  settings, materialBuffer, lightBuffers, skyVars, callVars >>
  /\ materialsCurrent' = FALSE

(***************************************************************************)
(* RenderCore::SetMaterials                                                *)
(* A material is [texture, addr]: per slot the texture index of            *)
(* CoreMaterialEx (-1 for none) and the address field of CoreMaterial.     *)
(***************************************************************************)
TextureSlots  == 0..10
\* Lines 361-371: every slot but slot 8 is resolved.
ResolvedSlots == TextureSlots \ {8}

\* Lines 359-371 for one material.
ResolveMaterial(m) ==
  [m EXCEPT !.addr = [slot \in TextureSlots |->
      IF slot \in ResolvedSlots /\ m.texture[slot] # -1
        THEN texDescs[m.texture[slot] + 1].firstPixel
        ELSE m.addr[slot]]]

\* Lines 348-375.  The texture indices refer to textures that were set.
SetMaterials(mat) ==
  /\ pc = "idle"
  /\ \A i \in DOMAIN mat : \A slot \in ResolvedSlots :
       mat[i].texture[slot] < Len(texDescs)
  /\ materialBuffer' = [gen  |-> NewGen(materialBuffer),
                        mats |-> [i \in DOMAIN mat |-> ResolveMaterial(mat[i])]]
  /\ UNCHANGED << renderVars, hostVars, meshes, instances, topLevelDirty, instancesDirty,
                  settings, texDescs, textureCount, texelBuffers, lightBuffers,
                  skyVars, callVars >>
  /\ materialsCurrent' = TRUE

(***************************************************************************)
(* RenderCore::SetLights and RenderCore::SetSkyData                        *)
(***************************************************************************)
\* Lines 381-395: the four buffers are replaced and the counts published.
SetLights(area, point, spot, directional) ==
  /\ pc = "idle"
  /\ lightBuffers' = [gen |-> NewGen(lightBuffers), area |-> area, point |-> point,
                      spot |-> spot, directional |-> directional]
  /\ UNCHANGED << renderVars, hostVars, meshes, instances, topLevelDirty, instancesDirty,
                  settings, materialVars, skyVars, callVars >>

\* Lines 401-409.
SetSkyData(width, height) ==
  /\ pc = "idle"
  /\ skyPixelBuffer' = NewBuffer(skyPixelBuffer, width * height)
  /\ skywidth' = width /\ skyheight' = height
  /\ UNCHANGED << renderVars, hostVars, meshes, instances, topLevelDirty, instancesDirty,
                  settings, materialVars, lightBuffers, callVars >>

(***************************************************************************)
(* RenderCore::Setting                                                     *)
(***************************************************************************)
\* The test of lines 417 and 426 without its negation.
NameIsNot(name, key) == name # key

\* !strcmp( name, key )
NameIs(name, key) == name = key

\* Lines 415-434.
SettingResult(s, name, value) ==
  IF NameIs(name, "epsilon")
    THEN IF s.geometryEpsilon # value
           THEN [s EXCEPT !.geometryEpsilon = value, !.devGeometryEpsilon = value,
                          !.ctxGeometryEpsilon = value]
           ELSE s
    ELSE IF NameIs(name, "clampValue")
           THEN IF s.clampValue # value
                  THEN [s EXCEPT !.clampValue = value, !.devClampValue = value]
                  ELSE s
           ELSE s

Setting(name, value) ==
  /\ pc = "idle"
  /\ settings' = SettingResult(settings, name, value)
  /\ lastSetting' = << name, value >>
  /\ UNCHANGED << renderVars, hostVars, meshes, instances, topLevelDirty, instancesDirty,
                  materialVars, lightBuffers, skyVars, maxMeshIdx, maxInstanceIdx,
                  repeatedCall >>

(***************************************************************************)
(* RenderCore::Render                                                      *)
(***************************************************************************)
\* Lines 464-474: the descriptor of instance i is the device pointer of the
\* triangles of the mesh the instance refers to (the mesh and the geometry it
\* holds) and the inverse matrix held by the instance's transform node.
InstDesc(inst) ==
  [triangles    |-> << inst.mesh, meshes[inst.mesh + 1].triangles >>,
   invTransform |-> inst.inverse]

\* Lines 460-476.
InstDescArray == [i \in DOMAIN instances |-> InstDesc(instances[i])]

\* if (instDescBuffer == 0 || instDescBuffer->GetSize() < (int)instances.size())
InstDescTooSmallNullOnly(buf, n) == buf.gen = 0
InstDescTooSmall(buf, n) == buf.gen = 0 \/ buf.cap < n

\* The test of line 446 always succeeding.
RestartAlways(c) == TRUE

\* if (converge == Restart)
RestartRequested(c) == c = "Restart"

\* Lines 440-502: entry, the optional reset, the instance descriptor update,
\* the spawn population.
RenderBegin(c) ==
  /\ pc = "idle"
  /\ accumulator.gen > 0                \* a target was set: the buffers exist
  /\ c = "Continue" => seedFrames < MaxFrames
  /\ converge' = c
  /\ dirtyBefore' = (accumulator.sum > 0 /\ samplesTaken > 0 /\ camRNGseed # FixedSeed)
  /\ IF RestartRequested(c)
       THEN /\ accumulator' = ClearOnRestart(accumulator)
            /\ samplesTaken' = 0
            /\ camRNGseed' = FixedSeed
            /\ frames' = 0
            /\ seedFrames' = 1
            /\ log' = << Event("Clear", 0, 0, 0, 0) >>
       ELSE /\ UNCHANGED << accumulator, samplesTaken, camRNGseed, frames >>
            /\ seedFrames' = seedFrames + 1
            /\ log' = << >>
  /\ pathCount' = scrwidth * scrheight * scrspp
  /\ pathLength' = 1
  /\ counters' = NoCounters
  /\ pc' = "extend"
  /\ UNCHANGED << targetVars, bufferVars, counterBuffer, targetSeq,
                  sceneVars, topLevelDirty, hitWriter, hostVars >>
  /\ IF instancesDirty
       THEN /\ instDescArray' = InstDescArray
            /\ IF InstDescTooSmall(instDescBuffer, Len(instances))
                 THEN /\ instDescBuffer' = NewBuffer(instDescBuffer, Len(instances) * 2)
                      /\ instDescPtr' = instDescBuffer'.gen
                 ELSE UNCHANGED << instDescBuffer, instDescPtr >>
       ELSE UNCHANGED descVars
  /\ shadeArgs' = << >>

\* Lines 507-514: bounce 1, spawn and extend the camera rays.
ExtendFirst ==
  /\ pc = "extend" /\ pathLength = 1
  /\ counterBuffer' = InitCountersForExtend(pathCount)
  /\ log' = log \o << Event("InitCountersForExtend", pathLength, pathCount, 0, 0),
                      Event("launch0", pathLength, pathCount, 0, 0) >>
  /\ pc' = "shade"
  /\ UNCHANGED << targetVars, bufferVars, samplesTaken, camRNGseed, accumulator,
                  converge, pathLength, pathCount, counters, frames, seedFrames,
                  dirtyBefore, targetSeq,
                  sceneVars, descVars, hostVars, shadeArgs >>
  /\ hitWriter' = WriteHits(hitWriter, pathCount, pathLength)
  /\ topLevelDirty' = FALSE

\* Line 523: the counter initialisation of a later bounce.
SubsequentInitNone(dev) == dev
\* The bounce-1 form used for a later bounce: the shadow counter is zeroed.
SubsequentInitZeroShadow(dev) ==
  [activePaths |-> dev.extensionRays, extensionRays |-> 0, shadowRays |-> 0]
SubsequentInit(dev) == InitCountersSubsequent(dev)

\* ExtendSubsequent with lines 521 and 523 exchanged.
ExtendSubsequentSwapped ==
  /\ pc = "extend" /\ pathLength > 1
  /\ LET copied == CopyToHost(SubsequentInit(counterBuffer))
     IN  /\ counterBuffer' = SubsequentInit(counterBuffer)
         /\ log' = log \o
              << Event("InitCountersSubsequent", pathLength, 0, 0, 0),
                 Event("CopyToHost", pathLength, 0, copied.extensionRays,
                       copied.shadowRays),
                 Event("launch1", pathLength, pathCount, 0, 0) >>
  /\ pc' = "shade"
  /\ UNCHANGED << targetVars, bufferVars, samplesTaken, camRNGseed, accumulator,
                  converge, pathLength, pathCount, counters, frames, seedFrames,
                  dirtyBefore, targetSeq,
                  sceneVars, topLevelDirty, descVars, hostVars, shadeArgs >>
  /\ hitWriter' = WriteHits(hitWriter, pathCount, pathLength)

\* ExtendSubsequent without the copy of line 521.
ExtendSubsequentNoCopy ==
  /\ pc = "extend" /\ pathLength > 1
  /\ counterBuffer' = SubsequentInit(counterBuffer)
  /\ log' = log \o << Event("InitCountersSubsequent", pathLength, 0, 0, 0),
                      Event("launch1", pathLength, pathCount, 0, 0) >>
  /\ pc' = "shade"
  /\ UNCHANGED << targetVars, bufferVars, samplesTaken, camRNGseed, accumulator,
                  converge, pathLength, pathCount, counters, frames, seedFrames,
                  dirtyBefore, targetSeq,
                  sceneVars, topLevelDirty, descVars, hostVars, shadeArgs >>
  /\ hitWriter' = WriteHits(hitWriter, pathCount, pathLength)

\* ExtendSubsequent without the dispatch of line 524.
ExtendSubsequentNoLaunch ==
  /\ pc = "extend" /\ pathLength > 1
  /\ LET copied == CopyToHost(counterBuffer)
     IN  /\ counterBuffer' = SubsequentInit(counterBuffer)
         /\ log' = log \o
              << Event("CopyToHost", pathLength, 0, copied.extensionRays,
                       copied.shadowRays),
                 Event("InitCountersSubsequent", pathLength, 0, 0, 0) >>
  /\ pc' = "shade"
  /\ UNCHANGED << targetVars, bufferVars, samplesTaken, camRNGseed, accumulator,
                  converge, pathLength, pathCount, counters, frames, seedFrames,
                  dirtyBefore, targetSeq,
                  sceneVars, topLevelDirty, descVars, hitWriter, hostVars,
                  shadeArgs >>

\* Lines 515-525: later bounces, extend the bounced paths.  The reference
\* declared at line 522 shadows the local snapshot and is not used.
ExtendSubsequent ==
  /\ pc = "extend" /\ pathLength > 1
  /\ LET copied == CopyToHost(counterBuffer)
     IN  /\ counterBuffer' = SubsequentInit(counterBuffer)
         /\ log' = log \o
              << Event("CopyToHost", pathLength, 0, copied.extensionRays,
                       copied.shadowRays),
                 Event("InitCountersSubsequent", pathLength, 0, 0, 0),
                 Event("launch1", pathLength, pathCount, 0, 0) >>
  /\ pc' = "shade"
  /\ UNCHANGED << targetVars, bufferVars, samplesTaken, camRNGseed, accumulator,
                  converge, pathLength, pathCount, counters, frames, seedFrames,
                  dirtyBefore, targetSeq,
                  sceneVars, topLevelDirty, descVars, hostVars, shadeArgs >>
  /\ hitWriter' = WriteHits(hitWriter, pathCount, pathLength)

\* Lines 531-535: shade( ..., RandomUInt( camRNGseed ), ..., samplesTaken, ... ):
\* R0 is the seed after it was advanced, pass the sample counter.
ShadeArgs(R0, pass) == [seed |-> R0, pass |-> pass]

\* Line 533: the argument expression RandomUInt( camRNGseed ) advances the
\* member in place, once for every shading dispatch.
NextSeedKept(seed) == seed
NextSeed(seed) == RandomUInt(seed)

\* Lines 530-536: the shading dispatch of this bounce, with its outcome one
\* of outcomes.
ShadeOver(outcomes) ==
  /\ pc = "shade"
  /\ \E o \in outcomes :
       /\ counterBuffer' = ShadeKernel(counterBuffer, o)
       /\ accumulator' = Deposit(accumulator, o.deposit)
       /\ log' = Append(log, Event("shade", pathLength, pathCount, o.ext, o.shadow))
  /\ camRNGseed' = NextSeed(camRNGseed)
  /\ pc' = "readback"
  /\ UNCHANGED << targetVars, bufferVars, samplesTaken, converge, pathLength,
                  pathCount, counters, frames, seedFrames, dirtyBefore, targetSeq,
                  sceneVars, topLevelDirty, descVars, hitWriter, hostVars >>
  /\ shadeArgs' = Append(shadeArgs, ShadeArgs(camRNGseed', samplesTaken))

Shade == ShadeOver(ShadeOutcomes(pathCount))

\* Line 539: the population of the next bounce.
NextPathCountShadow(c) == c.shadowRays
NextPathCountActive(c) == c.activePaths
NextPathCount(c) == c.extensionRays

\* Lines 503 and 540: the loop runs pathLength = 1..3 and then falls through
\* to the shadow-ray dispatch; n is the population of the next bounce.
AfterReadbackReturn(pl, n) ==
  IF n = 0 THEN "stats" ELSE IF pl + 1 <= MaxBounces THEN "extend" ELSE "connect"
AfterReadback(pl, n) == IF pl + 1 <= MaxBounces THEN "extend" ELSE "connect"

\* Lines 537-540: read the counters back, size the next bounce, loop.
Readback ==
  /\ pc = "readback"
  /\ LET copied == CopyToHost(counterBuffer)
     IN  /\ counters' = copied
         /\ pathCount' = NextPathCount(copied)
         /\ log' = Append(log, Event("CopyToHost", pathLength, 0,
                                     copied.extensionRays, copied.shadowRays))
  /\ pathLength' = pathLength + 1
  /\ pc' = AfterReadback(pathLength, pathCount')
  /\ UNCHANGED << targetVars, bufferVars, samplesTaken, camRNGseed, accumulator,
                  counterBuffer, converge, frames, seedFrames, dirtyBefore, targetSeq,
                  sceneVars, topLevelDirty, descVars, hitWriter, hostVars,
                  shadeArgs >>

\* Line 544: the size of the shadow-ray dispatch.
ShadowLaunchSizeExt == counters.extensionRays
ShadowLaunchSize == counters.shadowRays

\* Lines 541-548: connect to the light sources, with the deposit one of
\* deposits.
ShadowConnectOver(deposits) ==
  /\ pc = "connect"
  /\ \E d \in deposits :
       accumulator' = Deposit(accumulator, d)
  /\ log' = Append(log, Event("launch2", pathLength, ShadowLaunchSize, 0, 0))
  /\ pc' = "present"
  /\ UNCHANGED << targetVars, bufferVars, samplesTaken, camRNGseed, counterBuffer,
                  converge, pathLength, pathCount, counters, frames, seedFrames,
                  dirtyBefore, targetSeq,
                  sceneVars, topLevelDirty, descVars, hitWriter, hostVars,
                  shadeArgs >>

ShadowConnect == ShadowConnectOver(ConnectOutcomes(ShadowLaunchSize))

\* Line 551: samplesTaken += scrspp
SamplesAfterFrameOne == samplesTaken + 1
SamplesAfterFrame == samplesTaken + scrspp

\* Lines 549-553: present the accumulator.
Present ==
  /\ pc = "present"
  /\ samplesTaken' = SamplesAfterFrame
  /\ frames' = frames + 1
  /\ log' = log \o << Event("BindSurface", pathLength, 0, 0, 0),
                      Event("finalizeRender", pathLength, samplesTaken', 0, 0),
                      Event("UnbindSurface", pathLength, 0, 0, 0) >>
  /\ pc' = "stats"
  /\ UNCHANGED << targetVars, bufferVars, camRNGseed, accumulator, counterBuffer,
                  converge, pathLength, pathCount, counters, seedFrames,
                  dirtyBefore, targetSeq,
                  sceneVars, topLevelDirty, descVars, hitWriter, hostVars,
                  shadeArgs >>

\* Lines 554-562: statistics; Render returns and its locals die.
RenderEnd ==
  /\ pc = "stats"
  /\ pc' = "idle"
  /\ pathLength' = 0 /\ pathCount' = 0
  /\ counters' = NoCounters
  /\ log' = << >>
  /\ dirtyBefore' = FALSE
  /\ UNCHANGED << targetVars, bufferVars, samplesTaken, camRNGseed, accumulator,
                  counterBuffer, converge, frames, seedFrames, targetSeq,
                  sceneVars, topLevelDirty, instDescBuffer, instDescPtr,
                  topLevelChildren >>
  /\ hitWriter' = [k \in DOMAIN hitWriter |-> 0]
  /\ instDescArray' = << >>
  /\ shadeArgs' = << >>
  /\ hostSynced' = FALSE

RenderStep ==
  \/ ExtendFirst
  \/ ExtendSubsequent
  \/ Shade
  \/ Readback
  \/ ShadowConnect
  \/ Present
  \/ RenderEnd

Next ==
  \/ \E w \in Widths, h \in Heights, spp \in SPPs : SetTarget(w, h, spp)
  \/ \E c \in Convergence : RenderBegin(c)
  \/ RenderStep

Spec == Init /\ [][Next]_vars

\* The host thread runs a started Render call to its end.
LiveSpec == Spec /\ WF_vars(RenderStep)

TargetNext == \E w \in Widths, h \in Heights, spp \in SPPs : SetTargetTracked(w, h, spp)

TargetSpec == Init /\ [][TargetNext]_vars

(***************************************************************************)
(* The scene mirror.  The host edits meshes and instances between frames   *)
(* of one resolution and restarts the image with every frame; every        *)
(* shading dispatch lets half of its paths survive and every path emit a   *)
(* shadow candidate, and the shadow dispatch finds a light visible.        *)
(***************************************************************************)
(***************************************************************************)
(* The render parameters.  The defaults of vars and of the device-side     *)
(* epsilon are set outside rendercore.cpp: any value.                      *)
(***************************************************************************)
SettingNames  == {"epsilon", "clampValue", "brightness"}
SettingValues == {0, 1, ClampInit}

SettingInit ==
  /\ InitExceptSettings
  /\ settings \in [geometryEpsilon : SettingValues, clampValue : SettingValues,
                    devGeometryEpsilon : SettingValues,
                    ctxGeometryEpsilon : SettingValues, devClampValue : {ClampInit}]

SettingNext == \E name \in SettingNames, value \in SettingValues : Setting(name, value)

SettingSpec == SettingInit /\ [][SettingNext]_vars

SceneWidths == {2}
SceneSPPs   == {1}

HalfSurvive(p) ==
  [ext |-> p \div 2, shadow |-> p, deposit |-> IF p = 0 THEN 0 ELSE 1]

SceneRenderStep ==
  \/ ExtendFirst
  \/ ExtendSubsequent
  \/ ShadeOver({HalfSurvive(pathCount)})
  \/ Readback
  \/ ShadowConnectOver({1})
  \/ Present
  \/ RenderEnd

\* The host's frame: it sends the scene edits, calls UpdateToplevel once and
\* then Render.  hostSynced is true from that UpdateToplevel call until
\* Render returns.
HostEdits ==
  /\ ~hostSynced
  /\ \/ \E meshIdx \in MeshIdxs, g \in Geometries : SetGeometry(meshIdx, g)
     \/ \E instanceIdx \in InstanceIdxs, meshIdx \in MeshIdxs, matrix \in Transforms :
          SetInstance(instanceIdx, meshIdx, matrix)

HostUpdateToplevel == ~hostSynced /\ UpdateToplevel

HostRender == hostSynced /\ RenderBegin("Restart")

SceneNext ==
  \/ \E w \in SceneWidths, h \in Heights, spp \in SceneSPPs : SetTarget(w, h, spp)
  \/ HostEdits
  \/ HostUpdateToplevel
  \/ HostRender
  \/ SceneRenderStep

SceneSpec == Init /\ [][SceneNext]_vars

(***************************************************************************)
(* Scene edits between the frames of a converging image: the host calls    *)
(* every setter, each with one argument list, and renders as in SceneSpec. *)
(***************************************************************************)
Tex(st, n) == [storage |-> st, pixelCount |-> n, firstPixel |-> 0]
EditTextures  == << Tex("ARGB32", 4), Tex("NRM32", 2), Tex("ARGB32", 8) >>
\* one material: slot 0 uses texture 2, slot 8 texture 1, the others none
EditMaterials ==
  << [texture |-> [slot \in TextureSlots |->
                     IF slot = 0 THEN 2 ELSE IF slot = 8 THEN 1 ELSE -1],
      addr    |-> [slot \in TextureSlots |-> 0]] >>

EditSetter ==
  \/ SetGeometry(0, 1)
  \/ SetInstance(0, 0, 1)
  \/ SetTextures(EditTextures)
  \/ SetMaterials(EditMaterials)
  \/ SetLights(1, 0, 0, 1)
  \/ SetSkyData(2, 1)
  \/ Setting("epsilon", 1)

EditNext ==
  \/ \E w \in SceneWidths, h \in Heights, spp \in SceneSPPs : SetTarget(w, h, spp)
  \/ EditSetter
  \/ \E c \in Convergence : RenderBegin(c)
  \/ SceneRenderStep

EditSpec == Init /\ [][EditNext]_vars

(***************************************************************************)
(* Textures and materials: the host sets texture layouts and material      *)
(* lists in any order.  The addresses the caller supplies are CallerAddr,  *)
(* a value no layout below has as an offset.                               *)
(***************************************************************************)
CallerAddr == 7

MaterialLayouts ==
  { << >>,
    << Tex("ARGB32", 4), Tex("NRM32", 2), Tex("ARGB32", 8) >>,
    << Tex("ARGB32", 8), Tex("ARGB32", 4), Tex("NRM32", 2) >>,
    << Tex("NRM32", 2), Tex("ARGB32", 4) >> }

Material(texture) ==
  [texture |-> texture, addr |-> [slot \in TextureSlots |-> CallerAddr]]

MaterialLists ==
  { << Material([slot \in TextureSlots |->
                   IF slot = 0 THEN 2 ELSE IF slot \in {3, 8} THEN 1 ELSE -1]) >>,
    << Material([slot \in TextureSlots |->
                   IF slot = 1 THEN 0 ELSE IF slot \in {9, 10} THEN 1 ELSE -1]),
       Material([slot \in TextureSlots |-> -1]) >>,
    << Material([slot \in TextureSlots |->
                   IF slot \in {2, 7} THEN 1 ELSE IF slot = 5 THEN 0 ELSE -1]) >> }

MaterialNext ==
  \/ \E tex \in MaterialLayouts : SetTextures(tex)
  \/ \E mat \in MaterialLists : SetMaterials(mat)

MaterialSpec == Init /\ [][MaterialNext]_vars

(***************************************************************************)
(* Reading the log of the running frame.                                   *)
(***************************************************************************)
Idx == DOMAIN log
IsExtend(e)   == e.op \in {"launch0", "launch1"}
IsShade(e)    == e.op = "shade"
IsCopy(e)     == e.op = "CopyToHost"
IsDispatch(e) == e.op \in {"launch0", "launch1", "launch2", "shade"}
\* the operations that write the device counters
IsCounterWrite(e) == e.op \in {"InitCountersForExtend", "InitCountersSubsequent", "shade"}
\* a readback that directly follows the shading dispatch of its bounce
IsPostCopy(i) == IsCopy(log[i]) /\ i > 1 /\ IsShade(log[i - 1])
FrameDone == pc = "stats"

RECURSIVE EmittedShadow(_)
\* the shadow candidates emitted by the shading dispatches of a log prefix
EmittedShadow(seq) ==
  IF seq = << >> THEN 0
  ELSE (IF IsShade(Head(seq)) THEN Head(seq).sh ELSE 0) + EmittedShadow(Tail(seq))

(***************************************************************************)
(* C1.  After every Render the sample counter equals samplesPerPixel times *)
(* the number of Render calls since (and including) the latest             *)
(* Render(Restart), or since the SetTarget when there was none; a          *)
(* Render(Continue) adds exactly samplesPerPixel.  frames counts those     *)
(* calls; the sample count handed to finalizeRender is the same number.    *)
(***************************************************************************)
C1_SampleCount ==
  /\ samplesTaken = scrspp * frames
  /\ \A i \in Idx : log[i].op = "finalizeRender" => log[i].n = scrspp * frames

C1_Witness ==
  /\ FrameDone /\ converge = "Continue"
  /\ scrspp = 2 /\ frames = 2 /\ samplesTaken = 4

(***************************************************************************)
(* C2.  Render(Restart) has zeroed the accumulator, set the sample counter *)
(* to zero and set the seed to the fixed constant before the first         *)
(* dispatch of the frame is issued, whatever the state before the call.    *)
(***************************************************************************)
C2_RestartResets ==
  (pc = "extend" /\ pathLength = 1 /\ converge = "Restart") =>
     /\ accumulator.sum = 0
     /\ samplesTaken = 0
     /\ camRNGseed = FixedSeed
     /\ \A i \in Idx : ~IsDispatch(log[i])

C2_Witness ==
  /\ pc = "extend" /\ pathLength = 1 /\ converge = "Restart"
  /\ dirtyBefore
  /\ accumulator.sum = 0 /\ samplesTaken = 0 /\ camRNGseed = FixedSeed

(***************************************************************************)
(* C3.  The frame has one shadow-ray dispatch; its size is the shadow-ray  *)
(* counter read back after the last bounce's shading, and that counter is  *)
(* the sum of the shadow candidates emitted by the shading dispatches of   *)
(* all bounces of the frame.                                               *)
(***************************************************************************)
C3_ShadowDispatchSize ==
  /\ Cardinality({i \in Idx : log[i].op = "launch2"}) <= 1
  /\ FrameDone => \E i \in Idx : log[i].op = "launch2"
  /\ \A i \in Idx : log[i].op = "launch2" =>
       /\ i > 2
       /\ IsPostCopy(i - 1) /\ log[i - 1].b = MaxBounces
       /\ log[i].n = log[i - 1].sh
       /\ log[i].n = EmittedShadow(SubSeq(log, 1, i))

C3_Witness ==
  /\ FrameDone
  /\ \E i, j, k \in Idx :
       /\ IsShade(log[i]) /\ log[i].b = 1 /\ log[i].sh > 0
       /\ IsShade(log[j]) /\ log[j].b = 2 /\ log[j].sh > 0 /\ log[j].sh < log[i].sh
       /\ IsShade(log[k]) /\ log[k].b = 3 /\ log[k].sh > 0 /\ log[k].sh < log[j].sh
  /\ \E i \in Idx : log[i].op = "launch2" /\ log[i].n > 0

(***************************************************************************)
(* C4.  Within a frame the intersection dispatch of bounce b+1 is never    *)
(* larger than the one of bounce b: the path population only shrinks.      *)
(***************************************************************************)
C4_PopulationShrinks ==
  \A i, j \in Idx :
    (IsExtend(log[i]) /\ IsExtend(log[j]) /\ log[j].b = log[i].b + 1)
       => log[j].n <= log[i].n

C4_Witness ==
  /\ FrameDone
  /\ \E i, j, k \in Idx :
       /\ IsExtend(log[i]) /\ log[i].b = 1
       /\ IsExtend(log[j]) /\ log[j].b = 2 /\ log[j].n < log[i].n
       /\ IsExtend(log[k]) /\ log[k].b = 3 /\ log[k].n < log[j].n /\ log[k].n > 0

(***************************************************************************)
(* C5.  Order of the operations of a frame: the shading dispatch of bounce *)
(* b comes after the intersection dispatch of b; the intersection dispatch *)
(* of bounce b+1 comes after the shading dispatch of b; and every counter  *)
(* readback comes after a shading dispatch, with that dispatch (and no     *)
(* later counter initialisation) the last writer of the counters it reads. *)
(***************************************************************************)
LastCounterWrite(i) ==
  LET before == {j \in 1..(i - 1) : IsCounterWrite(log[j])}
  IN  IF before = {} THEN 0 ELSE CHOOSE j \in before : \A k \in before : k <= j

C5_DispatchOrder ==
  \A i \in Idx :
    /\ IsShade(log[i]) =>
         \E j \in 1..(i - 1) : IsExtend(log[j]) /\ log[j].b = log[i].b
    /\ (IsExtend(log[i]) /\ log[i].b > 1) =>
         \E j \in 1..(i - 1) : IsShade(log[j]) /\ log[j].b = log[i].b - 1
    /\ IsCopy(log[i]) =>
         /\ LastCounterWrite(i) > 0
         /\ IsShade(log[LastCounterWrite(i)])

C5_Witness ==
  /\ FrameDone
  /\ \A b \in 1..MaxBounces :
       \E i, j, k \in Idx :
         /\ i < j /\ j < k
         /\ IsExtend(log[i]) /\ log[i].b = b /\ log[i].n > 0
         /\ IsShade(log[j]) /\ log[j].b = b
         /\ IsCopy(log[k]) /\ log[k].b = b

(***************************************************************************)
(* C6.  Counter readbacks of a frame.                                      *)
(***************************************************************************)
CopiesOfBounce(b) == {i \in Idx : IsCopy(log[i]) /\ log[i].b = b}
ShadowIdx         == {i \in Idx : log[i].op = "launch2"}
CopiesAfterShadow == {i \in Idx : IsCopy(log[i]) /\ \E j \in ShadowIdx : j < i}

\* C6 as claimed: in a finished frame the counters were read back exactly
\* once in every bounce and exactly once after the shadow-ray dispatch.
C6_OncePerBounceAndAfterShadow ==
  FrameDone =>
     /\ \A b \in 1..MaxBounces : Cardinality(CopiesOfBounce(b)) = 1
     /\ Cardinality(CopiesAfterShadow) = 1

\* C6 as the code has it: the counters are read back once after the shading
\* dispatch of every bounce and, in every bounce after the first, once more
\* before that bounce's counter initialisation and intersection dispatch
\* (2 * 3 - 1 = 5 readbacks in a frame); none follows the shadow-ray dispatch.
C6_ReadbacksPerFrame ==
  /\ \A i \in Idx : IsShade(log[i]) /\ i < Len(log) => IsCopy(log[i + 1])
  /\ \A i \in Idx : log[i].op = "InitCountersSubsequent" => i > 1 /\ IsCopy(log[i - 1])
  /\ \A i \in Idx : IsCopy(log[i]) =>
        \/ IsPostCopy(i) /\ log[i - 1].b = log[i].b
        \/ i < Len(log) /\ log[i + 1].op = "InitCountersSubsequent"
                       /\ log[i + 1].b = log[i].b /\ log[i].b > 1
  /\ CopiesAfterShadow = {}
  /\ FrameDone =>
       /\ Cardinality(CopiesOfBounce(1)) = 1
       /\ \A b \in 2..MaxBounces : Cardinality(CopiesOfBounce(b)) = 2
       /\ Cardinality({i \in Idx : IsCopy(log[i])}) = 2 * MaxBounces - 1

C6_Witness ==
  /\ FrameDone
  /\ ShadowIdx # {}
  /\ Cardinality({i \in Idx : IsCopy(log[i])}) = 5
  /\ \E i \in Idx : log[i].op = "launch2" /\ log[i].n > 0

(***************************************************************************)
(* C7.  A bounce whose shading leaves no extension rays.                   *)
(***************************************************************************)
ZeroSurvivors(i) == IsPostCopy(i) /\ log[i].ext = 0

\* C7 as claimed: once the extension-ray count read back after bounce b's
\* shading is zero, no intersection or shading dispatch of a later bounce is
\* issued.
C7_LaterBouncesSkipped ==
  \A i \in Idx : ZeroSurvivors(i) =>
     \A j \in Idx : (IsExtend(log[j]) \/ IsShade(log[j])) => log[j].b <= log[i].b

\* C7 as the code has it: the loop has no exit on an empty population; the
\* intersection and shading dispatches of every later bounce up to bounce 3
\* are still issued, each of size zero.
C7_LaterBouncesEmpty ==
  \A i \in Idx : ZeroSurvivors(i) =>
     /\ \A j \in Idx : ((IsExtend(log[j]) \/ IsShade(log[j])) /\ log[j].b > log[i].b)
                          => log[j].n = 0
     /\ FrameDone =>
          \A b \in (log[i].b + 1)..MaxBounces :
             /\ \E j \in Idx : IsExtend(log[j]) /\ log[j].b = b
             /\ \E j \in Idx : IsShade(log[j]) /\ log[j].b = b

C7_Witness ==
  /\ FrameDone
  /\ \E i \in Idx :
       /\ ZeroSurvivors(i) /\ log[i].b = 1 /\ log[i - 1].n > 0
       /\ \E j, k \in Idx : /\ IsExtend(log[j]) /\ log[j].b = 2 /\ log[j].n = 0
                            /\ IsShade(log[k]) /\ log[k].b = 3 /\ log[k].n = 0

(***************************************************************************)
(* C8.  Every Render call runs through its stages in the order Reset (only *)
(* for Restart), Spawn, the Extend/Shade bounces (at most 3), one          *)
(* ShadowConnect, one Present (bind, finalize, unbind), whatever the       *)
(* counters hold, and it ends; it returns only after Present.              *)
(***************************************************************************)
Stage(e) ==
  CASE e.op = "Clear" -> 0
    [] e.op \in {"InitCountersForExtend", "launch0"} -> 1
    [] e.op \in {"InitCountersSubsequent", "launch1", "shade", "CopyToHost"} -> 2
    [] e.op = "launch2" -> 3
    [] e.op = "BindSurface" -> 4
    [] e.op = "finalizeRender" -> 5
    [] e.op = "UnbindSurface" -> 6

\* the longest log: Clear, 2 for the spawn, 3 + 2 for each later bounce, 2 for
\* the first shading and its readback, the shadow dispatch, 3 for Present
MaxLogLen == 1 + 2 + 2 + 5 * (MaxBounces - 1) + 1 + 3

StagesInOrder ==
  /\ \A i, j \in Idx : i < j => Stage(log[i]) <= Stage(log[j])
  /\ \A i \in Idx : log[i].op = "Clear" => i = 1 /\ converge = "Restart"
  /\ (pc # "idle" /\ converge = "Restart") => (log # << >> /\ log[1].op = "Clear")
  /\ \A s \in {1, 3, 4, 5, 6} :
        Cardinality({i \in Idx : Stage(log[i]) = s}) <= (IF s = 1 THEN 2 ELSE 1)
  /\ \A i \in Idx : IsDispatch(log[i]) => log[i].b \in 1..(MaxBounces + 1)
  /\ Len(log) <= MaxLogLen
  /\ pathLength <= MaxBounces + 1

PresentedAtEnd ==
  FrameDone =>
     /\ Len(log) >= 5
     /\ log[Len(log) - 3].op = "launch2"
     /\ log[Len(log) - 2].op = "BindSurface"
     /\ log[Len(log) - 1].op = "finalizeRender"
     /\ log[Len(log)].op = "UnbindSurface"
     /\ \E i \in Idx : log[i].op = "launch0"
     /\ \A b \in 1..MaxBounces : \E i \in Idx : IsShade(log[i]) /\ log[i].b = b

C8_RenderCompletes ==
  /\ [](StagesInOrder /\ PresentedAtEnd)
  /\ [][(pc # "idle" /\ pc' = "idle") => FrameDone]_vars
  /\ (pc # "idle") ~> FrameDone
  /\ FrameDone ~> (pc = "idle")

C8_Witness ==
  /\ FrameDone /\ converge = "Restart"
  /\ Len(log) = MaxLogLen
  /\ \E i \in Idx : IsShade(log[i]) /\ log[i].b = 1 /\ log[i].n > 0 /\ log[i].ext = 0

(***************************************************************************)
(* C9.  Sequences of SetTarget calls (targetSeq, under TargetSpec).        *)
(***************************************************************************)
TargetIdx == DOMAIN targetSeq
Product(c) == c.w * c.h * c.spp
NonDecreasingProduct ==
  \A i \in TargetIdx : i > 1 => Product(targetSeq[i - 1]) <= Product(targetSeq[i])
SameSPP == \A i, j \in TargetIdx : targetSeq[i].spp = targetSeq[j].spp
CapacityNeverDecreases ==
  \A i \in TargetIdx : i > 1 =>
     /\ targetSeq[i - 1].accumulator <= targetSeq[i].accumulator
     /\ targetSeq[i - 1].hit <= targetSeq[i].hit
     /\ targetSeq[i - 1].pathState <= targetSeq[i].pathState
     /\ targetSeq[i - 1].connection <= targetSeq[i].connection
ReallocatedOncePerPair ==
  \A i, j \in TargetIdx :
     (i < j /\ targetSeq[i].w = targetSeq[j].w /\ targetSeq[i].h = targetSeq[j].h
            /\ targetSeq[i].spp = targetSeq[j].spp)
        => ~(targetSeq[i].reallocated /\ targetSeq[j].reallocated)

\* C9 as claimed: when width*height*samplesPerPixel never decreases along the
\* calls, no buffer capacity decreases from one call to the next and each
\* (resolution, samplesPerPixel) pair is reallocated for at most once.
C9_MonotoneProduct ==
  NonDecreasingProduct => (CapacityNeverDecreases /\ ReallocatedOncePerPair)

\* C9 as the code has it: the same, for calls that moreover all pass the same
\* samplesPerPixel (a changed samplesPerPixel reallocates to the size of the
\* new resolution alone, which may be smaller).
C9_MonotoneProductSameSPP ==
  (NonDecreasingProduct /\ SameSPP) => (CapacityNeverDecreases /\ ReallocatedOncePerPair)

C9_Witness ==
  /\ Len(targetSeq) = 3
  /\ NonDecreasingProduct /\ SameSPP
  /\ targetSeq[1].reallocated /\ targetSeq[2].reallocated /\ ~targetSeq[3].reallocated
  /\ targetSeq[2].w = targetSeq[3].w /\ targetSeq[2].h = targetSeq[3].h
  /\ targetSeq[1].hit < targetSeq[2].hit

(***************************************************************************)
(* C10.  SetTarget reallocates exactly when width*height exceeds the pixel *)
(* capacity or samplesPerPixel differs from the current one; then all four *)
(* buffers are replaced in that call and the accumulator is cleared;       *)
(* otherwise none of the four is replaced.                                 *)
(***************************************************************************)
Replaced(old, new) == new.gen # old.gen

C10_ReallocateIff ==
  [][\A w \in Widths, h \in Heights, spp \in SPPs :
       SetTarget(w, h, spp) =>
         IF (w * h > maxPixels) \/ (spp # currentSPP)
           THEN /\ Replaced(accumulator, accumulator')
                /\ Replaced(hitBuffer, hitBuffer')
                /\ Replaced(pathStateBuffer, pathStateBuffer')
                /\ Replaced(connectionBuffer, connectionBuffer')
                /\ accumulator'.sum = 0
                /\ accumulator'.cap = AccumulatorSize(maxPixels')
                /\ hitBuffer'.cap = HitSize(maxPixels', spp)
                /\ pathStateBuffer'.cap = PathStateSize(maxPixels', spp)
                /\ connectionBuffer'.cap = ConnectionSize(maxPixels', spp)
           ELSE /\ ~Replaced(accumulator, accumulator')
                /\ ~Replaced(hitBuffer, hitBuffer')
                /\ ~Replaced(pathStateBuffer, pathStateBuffer')
                /\ ~Replaced(connectionBuffer, connectionBuffer')
                /\ maxPixels' = maxPixels /\ currentSPP' = currentSPP]_vars

\* A call that did not reallocate (the capacity is not the one a reallocation
\* for this resolution would have set) after one that did, with frames
\* rendered before it.
C10_Witness ==
  /\ pc = "idle" /\ samplesTaken = 0 /\ frames = 0 /\ seedFrames > 0
  /\ accumulator.gen = 2 /\ accumulator.sum = 0
  /\ maxPixels # ReservedPixels(scrwidth, scrheight)
  /\ scrwidth * scrheight <= maxPixels /\ scrspp = currentSPP

(***************************************************************************)
(* C11.  As stated: when SetTarget reallocates, the new pixel capacity is  *)
(* max(width*height, previous capacity * 17/16) in integer arithmetic.     *)
(***************************************************************************)
Max(a, b) == IF a >= b THEN a ELSE b

C11_MaxOfRequirementAndGrownCapacity ==
  [][\A w \in Widths, h \in Heights, spp \in SPPs :
       (SetTarget(w, h, spp) /\ ((w * h > maxPixels) \/ (spp # currentSPP)))
         => maxPixels' = Max(w * h, (maxPixels * 17) \div 16)]_vars

\* C11, amended.  When SetTarget reallocates, the new pixel capacity is
\* width*height plus one sixteenth of it (rounded down), whatever the previous
\* capacity was; otherwise the capacity is kept.
C11_RequirementPlusSixteenth ==
  [][\A w \in Widths, h \in Heights, spp \in SPPs :
       SetTarget(w, h, spp) =>
         IF (w * h > maxPixels) \/ (spp # currentSPP)
           THEN maxPixels' = (w * h) + ((w * h) \div 16)
           ELSE maxPixels' = maxPixels]_vars

\* A second allocation has reserved 16 pixels plus the slack of one.
C11_Witness ==
  /\ pc = "idle" /\ accumulator.gen = 2
  /\ scrwidth * scrheight = 16 /\ maxPixels = 17
  /\ accumulator.cap = 34

(***************************************************************************)
(* C12.  Every SetTarget call, reallocating or not, changing the           *)
(* resolution or samplesPerPixel or not, leaves the accumulator all zero   *)
(* and the sample counter at zero.                                         *)
(***************************************************************************)
C12_SetTargetClears ==
  [][\A w \in Widths, h \in Heights, spp \in SPPs :
       SetTarget(w, h, spp) => (accumulator'.sum = 0 /\ samplesTaken' = 0)]_vars

\* SetTarget was called after frames had advanced the random stream: the
\* accumulator and the sample counter are zero again although no
\* Render(Restart) ran since.
C12_Witness ==
  /\ pc = "idle" /\ seedFrames > 0 /\ frames = 0
  /\ camRNGseed # FixedSeed
  /\ accumulator.sum = 0 /\ samplesTaken = 0

(***************************************************************************)
(* C17.  Dispatch sizes within a frame: the intersection and the shading   *)
(* dispatch of bounce 1 are sized width*height*samplesPerPixel; those of   *)
(* bounce b+1 are both sized the extension-ray count read back after the   *)
(* shading dispatch of bounce b; the shading dispatch of a bounce has the  *)
(* size of that bounce's intersection dispatch.                            *)
(***************************************************************************)
IsBounceDispatch(e) == IsExtend(e) \/ IsShade(e)

C17_SizingChain ==
  \A i \in Idx :
    /\ (IsBounceDispatch(log[i]) /\ log[i].b = 1) =>
          log[i].n = scrwidth * scrheight * scrspp
    /\ (IsBounceDispatch(log[i]) /\ log[i].b > 1) =>
          \E j \in 1..(i - 1) :
            /\ IsPostCopy(j) /\ log[j].b = log[i].b - 1
            /\ log[i].n = log[j].ext
    /\ IsShade(log[i]) =>
          \E j \in 1..(i - 1) :
            IsExtend(log[j]) /\ log[j].b = log[i].b /\ log[j].n = log[i].n

\* A finished frame whose population shrank twice: the readbacks after the
\* shading of bounces 1 and 2 differ from each other, from the spawn
\* population and from the counters of live paths.
C17_Witness ==
  /\ FrameDone
  /\ \E i, j \in Idx :
       /\ IsPostCopy(i) /\ log[i].b = 1
       /\ IsPostCopy(j) /\ log[j].b = 2
       /\ 0 < log[j].ext /\ log[j].ext < log[i].ext
       /\ log[i].ext < scrwidth * scrheight * scrspp
       /\ \E k \in Idx : IsShade(log[k]) /\ log[k].b = 3 /\ log[k].n = log[j].ext

(***************************************************************************)
(* C18.  In a frame InitCountersForExtend is issued once, with the spawn   *)
(* population, before the first dispatch; every later bounce issues        *)
(* InitCountersSubsequent after the readback of the previous bounce and    *)
(* directly before its intersection dispatch; and from the bounce-1        *)
(* initialisation to the shadow-ray dispatch the device shadow-ray counter *)
(* is never reset: it holds what the shading dispatches so far emitted.    *)
(***************************************************************************)
FirstInits       == {i \in Idx : log[i].op = "InitCountersForExtend"}
LaterInits(b)    == {i \in Idx : log[i].op = "InitCountersSubsequent" /\ log[i].b = b}
CountersLive     == pc # "idle" /\ ~(pc = "extend" /\ pathLength = 1)

C18_CounterInitialisation ==
  /\ Cardinality(FirstInits) <= 1
  /\ CountersLive => Cardinality(FirstInits) = 1
  /\ \A i \in FirstInits :
       /\ log[i].n = scrwidth * scrheight * scrspp
       /\ \A j \in 1..(i - 1) : ~IsDispatch(log[j])
  /\ \A i \in Idx : IsDispatch(log[i]) => \E j \in FirstInits : j < i
  /\ \A b \in 2..MaxBounces : Cardinality(LaterInits(b)) <= 1
  /\ \A i \in Idx : log[i].op = "InitCountersSubsequent" =>
       /\ log[i].b > 1
       /\ \E j \in 1..(i - 1) : IsPostCopy(j) /\ log[j].b = log[i].b - 1
       /\ i < Len(log) /\ log[i + 1].op = "launch1" /\ log[i + 1].b = log[i].b
  /\ \A i \in Idx : log[i].op = "launch1" =>
       i > 1 /\ log[i - 1].op = "InitCountersSubsequent"
  /\ CountersLive => counterBuffer.shadowRays = EmittedShadow(log)

\* A finished frame in which bounces 1 and 2 both emitted shadow candidates
\* and both later bounces initialised their counters.
C18_Witness ==
  /\ FrameDone
  /\ Cardinality(LaterInits(2)) = 1 /\ Cardinality(LaterInits(3)) = 1
  /\ \E i, j \in Idx :
       /\ IsShade(log[i]) /\ log[i].b = 1 /\ log[i].sh > 0
       /\ IsShade(log[j]) /\ log[j].b = 2 /\ log[j].sh > 0
       /\ counterBuffer.shadowRays >= log[i].sh + log[j].sh

(***************************************************************************)
(* C19.  Every hit record the shading dispatch of bounce b reads (the      *)
(* first pathCount entries of the hit buffer) was written by the           *)
(* intersection dispatch of bounce b of the running frame, not by an       *)
(* earlier bounce and not by an earlier frame.                             *)
(***************************************************************************)
C19_HitsOfOwnBounce ==
  (pc \in {"shade", "readback"}) =>
     /\ pathCount <= Len(hitWriter)
     /\ \A k \in 1..pathCount : hitWriter[k] = pathLength

\* The shading dispatch of bounce 3 of a later frame has run over a shrunk
\* population: behind the records it read, the buffer still holds records of
\* bounces 2 and 1.
C19_Witness ==
  /\ pc = "readback" /\ pathLength = 3 /\ seedFrames > 1
  /\ pathCount > 0
  /\ \E k, m \in DOMAIN hitWriter :
       /\ pathCount < k /\ k < m
       /\ hitWriter[k] = 2 /\ hitWriter[m] = 1

(***************************************************************************)
(* C13.  SetInstance is idempotent: a call SetInstance(i, m, T) on an      *)
(* instance i that holds m and T from the previous call for i leaves the   *)
(* instance count, the instance's mesh reference, its transform and its    *)
(* inverse as they were, and with them the descriptor array the next       *)
(* Render builds.                                                          *)
(***************************************************************************)
C13_SetInstanceIdempotent ==
  [][\A i \in InstanceIdxs, m \in MeshIdxs, T \in Transforms :
       ( /\ SetInstance(i, m, T)
         /\ i < Len(instances)
         /\ instances[i + 1].mesh = m /\ instances[i + 1].transform = T )
       => /\ Len(instances') = Len(instances)
          /\ instances'[i + 1].mesh = instances[i + 1].mesh
          /\ instances'[i + 1].transform = instances[i + 1].transform
          /\ instances'[i + 1].inverse = instances[i + 1].inverse
          /\ InstDescArray' = InstDescArray]_vars

\* Render has built the descriptors of two instances after a repeated call;
\* the second instance is rotated, its descriptor holds the inverse rotation.
C13_Witness ==
  /\ repeatedCall /\ pc = "extend"
  /\ Len(instDescArray) = 2 /\ instDescArray = InstDescArray
  /\ instances[2].transform = 1 /\ instDescArray[2].invTransform = 2

(***************************************************************************)
(* C14.  Append or update by index.  SetGeometry(idx, ...) with idx the    *)
(* mesh count appends one mesh and keeps the others; with idx below the    *)
(* mesh count it updates mesh idx in place and leaves the count and every  *)
(* other mesh as they were.  SetInstance does the same on the instance     *)
(* list.  With indices introduced in order, each list is one longer than   *)
(* the largest index passed so far.                                        *)
(***************************************************************************)
OthersKept(old, new, idx) ==
  \A k \in DOMAIN old : k # idx + 1 => new[k] = old[k]

C14_AppendOrUpdate ==
  /\ [][\A idx \in MeshIdxs, g \in Geometries :
          SetGeometry(idx, g) =>
            /\ Len(meshes') = IF idx = Len(meshes) THEN Len(meshes) + 1 ELSE Len(meshes)
            /\ OthersKept(meshes, meshes', idx)
            /\ meshes'[idx + 1].triangles = g]_vars
  /\ [][\A idx \in InstanceIdxs, m \in MeshIdxs, T \in Transforms :
          SetInstance(idx, m, T) =>
            /\ Len(instances') = IF idx = Len(instances) THEN Len(instances) + 1
                                                        ELSE Len(instances)
            /\ OthersKept(instances, instances', idx)
            /\ instances'[idx + 1].mesh = m
            /\ instances'[idx + 1].transform = T]_vars
  /\ [](Len(meshes) = maxMeshIdx + 1 /\ Len(instances) = maxInstanceIdx + 1)

\* Two meshes and two instances exist, and instance 0 was updated in place:
\* it refers to another mesh than the one it was created with.
C14_Witness ==
  /\ Len(meshes) = 2 /\ maxMeshIdx = 1
  /\ Len(instances) = 2 /\ maxInstanceIdx = 1
  /\ instances[1].mesh # instances[1].geometryInstance
  /\ meshes[1].triangles # meshes[2].triangles

(***************************************************************************)
(* C20.  After any sequence of SetGeometry and SetInstance calls, for      *)
(* every instance the mesh whose geometry is bound in the instance's       *)
(* acceleration wrapper is the mesh the instance refers to for its shading *)
(* descriptor; and every SetInstance call marks the top level dirty.       *)
(***************************************************************************)
BoundMeshIsReferencedMesh ==
  \A i \in DOMAIN instances : instances[i].geometryInstance = instances[i].mesh

C20_WrapperMatchesReference ==
  /\ [](BoundMeshIsReferencedMesh)
  /\ [][\A i \in InstanceIdxs, m \in MeshIdxs, T \in Transforms :
          SetInstance(i, m, T) => topLevelDirty']_vars

(***************************************************************************)
(* C15.  Setting(name, value) with name "epsilon" sets the geometry        *)
(* epsilon to value and leaves the radiance clamp alone; with name         *)
(* "clampValue" it sets the radiance clamp to value and leaves the         *)
(* geometry epsilon alone; with any other name it changes no render        *)
(* parameter.  No call changes any other state.  The device-side copy of   *)
(* the parameter that was set holds value as well when the host value      *)
(* changed or when host and device agreed before the call.                 *)
(***************************************************************************)
EpsilonKept(s, t) ==
  /\ t.geometryEpsilon = s.geometryEpsilon
  /\ t.devGeometryEpsilon = s.devGeometryEpsilon
  /\ t.ctxGeometryEpsilon = s.ctxGeometryEpsilon

ClampKept(s, t) ==
  /\ t.clampValue = s.clampValue
  /\ t.devClampValue = s.devClampValue

C15_SettingByName ==
  [][\A name \in SettingNames, value \in SettingValues :
       Setting(name, value) =>
         /\ name = "epsilon" =>
              /\ settings'.geometryEpsilon = value
              /\ ClampKept(settings, settings')
              /\ (settings.geometryEpsilon # value
                    \/ settings.devGeometryEpsilon = settings.geometryEpsilon)
                   => settings'.devGeometryEpsilon = value
         /\ name = "clampValue" =>
              /\ settings'.clampValue = value
              /\ EpsilonKept(settings, settings')
              /\ (settings.clampValue # value
                    \/ settings.devClampValue = settings.clampValue)
                   => settings'.devClampValue = value
         /\ name \notin {"epsilon", "clampValue"} => settings' = settings
         /\ UNCHANGED << renderVars, hostVars, meshes, instances, topLevelDirty,
                         instancesDirty, materialVars, lightBuffers, skyVars >>]_vars

\* The latest call set the clamp to 1, on the host and on the device.
C15_Witness ==
  /\ lastSetting = << "clampValue", 1 >>
  /\ settings.clampValue = 1 /\ settings.devClampValue = 1
  /\ settings.geometryEpsilon = ClampInit /\ settings.devGeometryEpsilon = ClampInit
  /\ settings.ctxGeometryEpsilon = ClampInit

(***************************************************************************)
(* C16.  The accumulator changes only by a deposit of a shading or         *)
(* shadow-connect dispatch, which adds to it, or by a reset, which is the  *)
(* entry of Render(Restart) or a SetTarget call.  Render(Continue) does    *)
(* not clear the accumulator, reset the sample counter or reseed the       *)
(* random stream, at its entry or later.  No scene setter (SetGeometry,    *)
(* SetInstance, SetTextures, SetMaterials, SetLights, SetSkyData, Setting) *)
(* changes the accumulator or the sample counter.                          *)
(***************************************************************************)
IsDeposit(old, new) ==
  new.gen = old.gen /\ new.cap = old.cap /\ new.sum > old.sum

IsReset ==
  \/ RenderBegin("Restart")
  \/ \E w \in SceneWidths, h \in Heights, spp \in SceneSPPs : SetTarget(w, h, spp)

C16_DepositsAndResetsOnly ==
  [][ /\ accumulator' # accumulator =>
           \/ pc \in {"shade", "connect"} /\ IsDeposit(accumulator, accumulator')
           \/ IsReset /\ accumulator'.sum = 0
      /\ RenderBegin("Continue") =>
           /\ accumulator' = accumulator
           /\ samplesTaken' = samplesTaken
           /\ camRNGseed' = camRNGseed
      /\ (pc # "idle" /\ converge = "Continue") =>
           /\ accumulator'.sum >= accumulator.sum
           /\ samplesTaken' >= samplesTaken
           /\ camRNGseed' \in {camRNGseed, RandomUInt(camRNGseed)}
      /\ EditSetter =>
           /\ accumulator' = accumulator
           /\ samplesTaken' = samplesTaken ]_vars

\* Between the frames of a converging image every setter has been called:
\* two frames are accumulated and the instance edit after the second one is
\* still pending in the top-level structure.
C16_Witness ==
  /\ pc = "idle" /\ converge = "Continue"
  /\ frames = 2 /\ samplesTaken = 2 * scrspp /\ accumulator.sum > 4
  /\ topLevelDirty /\ Len(instances) = 1 /\ Len(meshes) = 1
  /\ textureCount = 3 /\ materialBuffer.gen > 0
  /\ lightBuffers.gen > 0 /\ skyPixelBuffer.gen > 0
  /\ lastSetting = << "epsilon", 1 >>

(***************************************************************************)
(* C25.  Once SetTarget was called the four per-frame buffers exist and    *)
(* every dispatch of a frame fits them: width*height*spp is at most the    *)
(* hit-buffer capacity, maxPixels*spp records, and the path-state          *)
(* capacity, maxPixels*spp*3 entries; 2*width*height is at most the        *)
(* accumulator capacity; and when no shading dispatch emits more shadow    *)
(* candidates or more survivors than it has paths, the shadow-ray dispatch *)
(* is at most maxPixels*spp*MAXPATHLENGTH connections of 3 entries each,   *)
(* the connection-buffer capacity.                                         *)
(***************************************************************************)
TargetSet == scrwidth * scrheight > 0

ShadingWithinPaths ==
  \A i \in Idx : IsShade(log[i]) => (log[i].ext <= log[i].n /\ log[i].sh <= log[i].n)

C25_DispatchesFitBuffers ==
  TargetSet =>
    /\ accumulator.gen > 0 /\ hitBuffer.gen > 0
    /\ pathStateBuffer.gen > 0 /\ connectionBuffer.gen > 0
    /\ hitBuffer.cap = maxPixels * scrspp
    /\ pathStateBuffer.cap = maxPixels * scrspp * 3
    /\ connectionBuffer.cap = maxPixels * scrspp * MAXPATHLENGTH * 3
    /\ scrwidth * scrheight * scrspp <= hitBuffer.cap
    /\ scrwidth * scrheight * scrspp * 3 <= pathStateBuffer.cap
    /\ 2 * scrwidth * scrheight <= accumulator.cap
    /\ ShadingWithinPaths =>
         \A i \in Idx :
           /\ IsBounceDispatch(log[i]) => log[i].n <= hitBuffer.cap
           /\ IsBounceDispatch(log[i]) => log[i].n * 3 <= pathStateBuffer.cap
           /\ log[i].op = "launch2" =>
                log[i].n * 3 <= connectionBuffer.cap

\* The largest shadow-ray dispatch a frame can have, every path of every
\* bounce surviving and connecting, in buffers that were reserved for a
\* larger resolution and kept.
C25_Witness ==
  /\ FrameDone
  /\ maxPixels > ReservedPixels(scrwidth, scrheight)
  /\ \E i \in Idx :
       /\ log[i].op = "launch2"
       /\ log[i].n = MaxBounces * scrwidth * scrheight * scrspp

(***************************************************************************)
(* C24.  Determinism across restarts.  The (seed, pass) pairs handed to    *)
(* the shading dispatches depend only on the number of Render calls since  *)
(* the seed was reset and on samplesPerPixel, never on the scene or on the *)
(* counters read back.  SeedAfter(n) is the fixed seed advanced n times.   *)
(*                                                                         *)
(* As stated, with the seed advanced once per frame: every shading         *)
(* dispatch of the k-th frame receives the seed advanced k times.          *)
(***************************************************************************)
RECURSIVE SeedAfter(_)
SeedAfter(n) ==
  IF n = 0 THEN FixedSeed
  ELSE LET R0 == RandomUInt(SeedAfter(n - 1))
       IN  R0 @@ R0      \* the same function, held as an explicit table

\* SeedAfter for every number of advances the frames of a behaviour can make.
SeedTable ==
  LET table == [n \in 0..(MaxBounces * MaxFrames) |-> SeedAfter(n)]
  IN  table @@ table

ShadeIdx == 1..Len(shadeArgs)

\* No SetTarget came between the frames: every frame started since the seed
\* was reset, but the one still running, is counted since the sample counter
\* was last reset.
SameTargetSinceReset ==
  seedFrames = frames + (IF pc \in {"idle", "stats"} THEN 0 ELSE 1)

PassOfFrame == SameTargetSinceReset => \A i \in ShadeIdx :
                 shadeArgs[i].pass = scrspp * (seedFrames - 1)

C24_SeedAdvancedOncePerFrame ==
  /\ \A i \in ShadeIdx : shadeArgs[i].seed = SeedTable[seedFrames]
  /\ PassOfFrame

\* C24, amended: the seed is advanced once per shading dispatch, three times
\* per frame; dispatch b of the k-th frame receives the fixed seed advanced
\* 3*(k-1)+b times and the pass number spp*(k-1).
C24_SeedAdvancedPerShade ==
  /\ \A i \in ShadeIdx :
       shadeArgs[i].seed = SeedTable[MaxBounces * (seedFrames - 1) + i]
  /\ PassOfFrame
  /\ pc = "idle" => camRNGseed = SeedTable[MaxBounces * seedFrames]
  /\ Len(shadeArgs) <= MaxBounces

\* The three dispatches of a second frame, after outcomes that left fewer
\* paths than were spawned: three different seeds and the pass number spp.
C24_Witness ==
  /\ FrameDone /\ converge = "Continue" /\ seedFrames = 2
  /\ Len(shadeArgs) = MaxBounces
  /\ shadeArgs[1].seed # shadeArgs[2].seed
  /\ shadeArgs[2].seed # shadeArgs[3].seed
  /\ shadeArgs[1].seed # SeedTable[MaxBounces]
  /\ shadeArgs[3].pass = scrspp
  /\ \E i \in Idx : IsShade(log[i]) /\ log[i].ext < log[i].n

(***************************************************************************)
(* C22.  At every dispatch issued by Render the instance descriptor buffer *)
(* holds at least as many entries as there are instances, entry i is the   *)
(* triangle pointer of the mesh instance i refers to and the inverse of    *)
(* its transform, and the pointer published to the kernels is the device   *)
(* pointer of the current buffer.  Render never clears instancesDirty, so  *)
(* every Render call rebuilds the array.                                   *)
(***************************************************************************)
InFrame == pc # "idle"

DescriptorsCurrent ==
  /\ instDescBuffer.gen > 0
  /\ instDescBuffer.cap >= Len(instances)
  /\ DOMAIN instDescArray = DOMAIN instances
  /\ \A i \in DOMAIN instances :
       /\ instDescArray[i].triangles =
            << instances[i].mesh, meshes[instances[i].mesh + 1].triangles >>
       /\ instDescArray[i].invTransform = Inverted(instances[i].transform)
  /\ instDescPtr = instDescBuffer.gen

C22_DescriptorsRebuiltEveryFrame ==
  /\ [](instancesDirty /\ (InFrame => DescriptorsCurrent))
  /\ [][instancesDirty' = instancesDirty]_vars
  /\ [][(instDescBuffer' # instDescBuffer) => instDescPtr' = instDescBuffer'.gen]_vars

\* A frame over two instances whose buffer replaced the one of an earlier
\* frame, the second instance moved and referring to the second mesh.
C22_Witness ==
  /\ pc = "shade" /\ pathLength = 2
  /\ Len(instances) = 2
  /\ instDescBuffer.gen = 2 /\ instDescPtr = 2 /\ instDescBuffer.cap = 4
  /\ instDescArray[2].triangles[1] = 1
  /\ instDescArray[2].invTransform # instDescArray[1].invTransform

(***************************************************************************)
(* C21.  UpdateToplevel runs once for every Render call, after the         *)
(* instance edits and before the first intersection dispatch of the frame; *)
(* when it has run the top-level group has as many children as there are   *)
(* instances and child i is the transform node of instance i; so at every  *)
(* intersection dispatch the top-level children are the current instances. *)
(***************************************************************************)
TopLevelCurrent ==
  /\ Len(topLevelChildren) = Len(instances)
  /\ \A i \in DOMAIN instances : topLevelChildren[i] = TransformNode(i - 1)

IsIntersectionDispatch(e) == e.op \in {"launch0", "launch1", "launch2"}

C21_TopLevelMatchesInstances ==
  /\ [][UpdateToplevel => (~hostSynced /\ hostSynced' /\ TopLevelCurrent')]_vars
  /\ [](InFrame => (hostSynced /\ TopLevelCurrent))
  /\ [][(\E i \in DOMAIN log' : IsIntersectionDispatch(log'[i]))
          => (hostSynced' /\ TopLevelCurrent')]_vars
  /\ [][(pc = "stats" /\ pc' = "idle") => ~hostSynced']_vars

\* The first bounce was dispatched over two instances, the second of them
\* appended after an earlier frame had run with one child.
C21_Witness ==
  /\ pc = "shade" /\ pathLength = 1
  /\ \E i \in Idx : log[i].op = "launch0"
  /\ Len(instances) = 2 /\ topLevelChildren = << TransformNode(0), TransformNode(1) >>
  /\ instDescBuffer.gen = 2

(***************************************************************************)
(* C23.  After SetTextures and then SetMaterials, for every material and   *)
(* every resolved channel (slots 0-7, 9, 10) whose texture index t is not  *)
(* -1 the stored address is the first-texel offset of texture t in the     *)
(* current layout, the sum of the texel counts of the lower-indexed        *)
(* textures of the same storage type; a channel with index -1 keeps the    *)
(* address the caller supplied.  A later SetTextures leaves the stored     *)
(* addresses as they are: where it moved a referenced texture the stored   *)
(* address no longer is that texture's offset.                             *)
(***************************************************************************)
RECURSIVE SumPixelCount(_, _)
SumPixelCount(descs, S) ==
  IF S = {} THEN 0
  ELSE LET j == CHOOSE k \in S : TRUE
       IN  descs[j].pixelCount + SumPixelCount(descs, S \ {j})

\* t is the texture index as the host counts it, from 0.
LayoutOffset(descs, t) ==
  SumPixelCount(descs, {j \in 1..t : descs[j].storage = descs[t + 1].storage})

Stored == materialBuffer.mats

AddressesMatch(mats, descs) ==
  \A i \in DOMAIN mats : \A slot \in ResolvedSlots :
    mats[i].texture[slot] # -1 =>
      mats[i].addr[slot] = LayoutOffset(descs, mats[i].texture[slot])

C23_AddressesFollowLayout ==
  /\ [](materialsCurrent => AddressesMatch(Stored, texDescs))
  /\ [][\A mat \in MaterialLists : SetMaterials(mat) =>
          /\ DOMAIN Stored' = DOMAIN mat
          /\ AddressesMatch(Stored', texDescs)
          /\ \A i \in DOMAIN mat : \A slot \in TextureSlots :
               mat[i].texture[slot] = -1 => Stored'[i].addr[slot] = mat[i].addr[slot]]_vars
  /\ [][(texDescs' # texDescs /\ materialsCurrent) =>
          /\ materialBuffer' = materialBuffer
          /\ \A i \in DOMAIN Stored : \A slot \in ResolvedSlots :
               LET t == Stored[i].texture[slot]
               IN  (/\ t # -1 /\ t < Len(texDescs')
                    /\ LayoutOffset(texDescs', t) # LayoutOffset(texDescs, t))
                   => Stored[i].addr[slot] # LayoutOffset(texDescs', t)]_vars

\* The textures were set again after the materials and texture 2, which a
\* material uses in slot 0, moved: the stored address is the old offset; the
\* channels without a texture hold the caller's address.
C23_Witness ==
  /\ ~materialsCurrent /\ materialBuffer.gen > 0
  /\ Len(Stored) = 1 /\ Len(texDescs) = 3
  /\ Stored[1].texture[0] = 2
  /\ Stored[1].addr[0] = 4 /\ LayoutOffset(texDescs, 2) = 0
  /\ Stored[1].addr[1] = CallerAddr
  /\ ~AddressesMatch(Stored, texDescs)
====
